---- MODULE Spec2Model ----
(***************************************************************************)
(* Model of the game-asset loader: LoaderSource and its four sources        *)
(* (CDImageSource, FileSource, ZipSource, SevenZipSource) and the archive   *)
(* extraction worker (worker/archiveworker.ts).                             *)
(*                                                                          *)
(* File names are TLA+ strings; the JavaScript string operations the code   *)
(* uses (toLowerCase, endsWith, charAt, slice, split/pop, the regular       *)
(* expressions) are operators computed character by character.              *)
(* Not modelled: the save directory handed to the System3 module, the       *)
(* spinner, timing measurements, and the CDDA cache of the disc image       *)
(* source (cddacache.js).                                                   *)
(***************************************************************************)
EXTENDS Integers, Sequences, FiniteSets, TLC

VARIABLES
    kind,        \* which concrete source was constructed
    files,       \* FileSource.files / zip entries / archive entries (names)
    disc,        \* root directory listing of the disc image
    patchFiles,  \* CDImageSource.patchFiles (names)
    pc,          \* position of startLoad
    i,           \* index of the running for-loop of doLoad
    error,       \* message of the error startLoad failed with
    gamedata,    \* listing of the game directory found by findGameDir
    isSystem3,   \* local isSystem3 of CDImageSource.doLoad
    modules,     \* loadModule calls, in order
    aldFiles,    \* LoaderSource.aldFiles
    hasMidi,     \* LoaderSource.hasMidi
    registry,    \* registerDataFile calls, in order
    reads,       \* isofs.readFile calls, in order
    gr,          \* FS.writeFile('xsystem35.gr', ...) calls, in order
    tracks,      \* tracks sparse array
    trackURLs,   \* trackURLs sparse array
    objectURLs,  \* what each URL made by URL.createObjectURL refers to
    calls,       \* getCDDA calls, in the order they were started
    wpc,         \* position of the worker's onmessage handler
    stdout,      \* stdout lines collected by the worker
    msgs,        \* messages the worker posted to the main thread
    extracted    \* files of the worker's response, once received

vars == <<kind, files, disc, patchFiles, pc, i, error, gamedata, isSystem3,
          modules, aldFiles, hasMidi, registry, reads, gr, tracks, trackURLs,
          objectURLs, calls, wpc, stdout, msgs, extracted>>

----------------------------------------------------------------------------
(* Bounds of the model *)

MaxFiles == 3

MaxCalls == 3

MaxPatches == 2

MaxGrFiles == 3

----------------------------------------------------------------------------
(* JavaScript string operations *)

UpperLetters == "ABCDEFGHIJKLMNOPQRSTUVWXYZ"

LowerLetters == "abcdefghijklmnopqrstuvwxyz"

Digits == "0123456789"

\* the characters of an alphabet
charsOf(alphabet) == {SubSeq(alphabet, k, k) : k \in 1..Len(alphabet)}

\* the place of a character in an alphabet, 0 when it is not in it
IndexIn(c, alphabet) ==
    IF \E k \in 1..Len(alphabet) : SubSeq(alphabet, k, k) = c
    THEN CHOOSE k \in 1..Len(alphabet) : SubSeq(alphabet, k, k) = c
    ELSE 0

lowerOf == [c \in charsOf(UpperLetters) |-> SubSeq(LowerLetters, IndexIn(c, UpperLetters), IndexIn(c, UpperLetters))]

upperOf == [c \in charsOf(LowerLetters) |-> SubSeq(UpperLetters, IndexIn(c, LowerLetters), IndexIn(c, LowerLetters))]

digitOf == [c \in charsOf(Digits) |-> IndexIn(c, Digits) - 1]

charToLower(c) == IF c \in DOMAIN lowerOf THEN lowerOf[c] ELSE c

charToUpper(c) == IF c \in DOMAIN upperOf THEN upperOf[c] ELSE c

RECURSIVE toLowerCase(_)
toLowerCase(s) ==
    IF s = "" THEN ""
    ELSE charToLower(SubSeq(s, 1, 1)) \o toLowerCase(SubSeq(s, 2, Len(s)))

RECURSIVE toUpperCase(_)
toUpperCase(s) ==
    IF s = "" THEN ""
    ELSE charToUpper(SubSeq(s, 1, 1)) \o toUpperCase(SubSeq(s, 2, Len(s)))

\* s.charAt(k), k counted from 0; '' when k is out of range
charAt(s, k) ==
    IF k >= 0 /\ k < Len(s) THEN SubSeq(s, k + 1, k + 1) ELSE ""

\* s.slice(0, -n)
sliceOff(s, n) ==
    IF Len(s) > n THEN SubSeq(s, 1, Len(s) - n) ELSE ""

endsWith(s, suffix) ==
    /\ Len(s) >= Len(suffix)
    /\ SubSeq(s, Len(s) - Len(suffix) + 1, Len(s)) = suffix

startsWith(s, prefix) ==
    /\ Len(s) >= Len(prefix)
    /\ SubSeq(s, 1, Len(prefix)) = prefix

\* s.split('/').pop()
RECURSIVE lastSegment(_)
lastSegment(s) ==
    IF \E k \in 1..Len(s) : SubSeq(s, k, k) = "/"
    THEN lastSegment(SubSeq(s, (CHOOSE k \in 1..Len(s) : SubSeq(s, k, k) = "/") + 1, Len(s)))
    ELSE s

isDigit(c) == c \in DOMAIN digitOf

\* the longest run of digits s ends with
RECURSIVE trailingDigits(_)
trailingDigits(s) ==
    IF s = "" \/ ~isDigit(SubSeq(s, Len(s), Len(s))) THEN ""
    ELSE trailingDigits(SubSeq(s, 1, Len(s) - 1)) \o SubSeq(s, Len(s), Len(s))

\* Number(d) of a string of decimal digits
RECURSIVE Number(_)
Number(d) ==
    IF d = "" THEN 0
    ELSE 10 * Number(SubSeq(d, 1, Len(d) - 1)) + digitOf[SubSeq(d, Len(d), Len(d))]

\* /(\d+)\.(wav|mp3|ogg)$/i : the digits captured, '' when there is no match
audioMatch(name) ==
    LET low == toLowerCase(name)
    IN  IF endsWith(low, ".wav") \/ endsWith(low, ".mp3") \/ endsWith(low, ".ogg")
        THEN trailingDigits(sliceOff(name, 4))
        ELSE ""

\* /\.(ald|ain|dat|mda|ttf|otf|ini|xsys35rc)$/i
isZipDataFile(name) ==
    \E ext \in {".ald", ".ain", ".dat", ".mda", ".ttf", ".otf", ".ini", ".xsys35rc"} :
        endsWith(toLowerCase(name), ext)

\* /adisk.dat/i : the dot of the pattern matches any character
matchesAdiskDat(name) ==
    LET low == toLowerCase(name)
    IN  \E k \in 1..Len(low) :
            /\ k + 8 <= Len(low)
            /\ SubSeq(low, k, k + 4) = "adisk"
            /\ SubSeq(low, k + 6, k + 8) = "dat"

\* /^\.|\.(exe|dll|txt|ini)$/i
isExcludedXsystem35(name) ==
    \/ startsWith(name, ".")
    \/ \E ext \in {".exe", ".dll", ".txt", ".ini"} : endsWith(toLowerCase(name), ext)

\* /\.(dat|ald)$/i on a line of the archive listing
isGameDataLine(line) ==
    \E ext \in {".dat", ".ald"} : endsWith(toLowerCase(line), ext)

----------------------------------------------------------------------------
(* LoaderSource.createGr *)

\* the resourceType table; '' stands for a missing key
resourceType(type) ==
    CASE type = "d" -> "Data"
      [] type = "g" -> "Graphics"
      [] type = "m" -> "Midi"
      [] type = "r" -> "Resource"
      [] type = "s" -> "Scenario"
      [] type = "w" -> "Wave"
      [] OTHER -> ""

typeOf(name) == toLowerCase(charAt(name, Len(name) - 6))

idOf(name) == charAt(name, Len(name) - 5)

basenameOf(name) == sliceOff(name, 6)

isAin(name) == toLowerCase(name) = "system39.ain"

isAld(name) == endsWith(toLowerCase(name), ".ald")

AinLine(name) == "Ain " \o name

\* faulty variant: the slot character is not upper-cased
ResourceLineNoUpper(name) ==
    resourceType(typeOf(name)) \o idOf(name) \o " " \o name

ResourceLine(name) ==
    resourceType(typeOf(name)) \o toUpperCase(idOf(name)) \o " " \o name

\* faulty variant: the slot letter is not lower-cased in the path
SaveLineUpperId(basename, id) ==
    "Save" \o id \o " save/" \o basename \o "s" \o id \o ".asd"

SaveLine(basename, id) ==
    "Save" \o id \o " save/" \o basename \o "s" \o toLowerCase(id) \o ".asd"

MsgSkipLine(basename) == "MsgSkip save/" \o basename \o ".msgskip"

\* faulty variant: basename is assigned after the check of the type
grStepBaseAfterCheck(st, name) ==
    IF isAin(name)
    THEN [st EXCEPT !.lines = Append(@, AinLine(name))]
    ELSE IF ~isAld(name) \/ resourceType(typeOf(name)) = ""
    THEN st
    ELSE [basename |-> basenameOf(name),
          lines    |-> Append(st.lines, ResourceLine(name)),
          midi     |-> st.midi \/ typeOf(name) = "m"]

\* one iteration of the loop over aldFiles; st = [basename, lines, midi]
grStep(st, name) ==
    IF isAin(name)
    THEN [st EXCEPT !.lines = Append(@, AinLine(name))]
    ELSE IF ~isAld(name)
    THEN st
    ELSE IF resourceType(typeOf(name)) = ""
    THEN [st EXCEPT !.basename = basenameOf(name)]
    ELSE [basename |-> basenameOf(name),
          lines    |-> Append(st.lines, ResourceLine(name)),
          midi     |-> st.midi \/ typeOf(name) = "m"]

RECURSIVE grLoop(_, _, _)
grLoop(st, names, k) ==
    IF k > Len(names) THEN st ELSE grLoop(grStep(st, names[k]), names, k + 1)

saveLines(basename) ==
    [k \in 1..Len(UpperLetters) |-> SaveLine(basename, SubSeq(UpperLetters, k, k))]

\* the lines createGr writes and the value it leaves in hasMidi
createGr(names, midi0) ==
    LET st == grLoop([basename |-> "", lines |-> <<>>, midi |-> midi0], names, 1)
    IN  [lines   |-> st.lines \o saveLines(st.basename) \o <<MsgSkipLine(st.basename)>>,
         hasMidi |-> st.midi]

----------------------------------------------------------------------------
(* Inputs *)

DistinctSeqs(S, n) ==
    UNION {{q \in [1..k -> S] : \A a, b \in 1..k : a # b => q[a] # q[b]} : k \in 0..n}

File(name) == [name |-> name, isDirectory |-> FALSE, children |-> <<>>]

Dir(name, children) == [name |-> name, isDirectory |-> TRUE, children |-> children]

\* entries a disc's root directory is drawn from
DiscPool ==
    {File("ADISK.DAT"), File("X.DAT"), File("XXXXXG1.ALD"), File("XXXXXM1.ALD"),
     Dir("GAMEDATA", <<"SYSTEM3.EXE", "X.DAT", "XXXXXG1.ALD">>),
     Dir("DISK1", <<"adisk.dat", ".hidden", "README.TXT", "XXXXXM1.ALD">>),
     Dir("DOCS", <<"MANUAL.TXT">>)}

PatchPool == {"x.dat", "XXXXXG1.ALD", "Readme.txt"}

\* loose files and archive entries
FilePool == {"ADISK.DAT", "data.ald", "01.ogg", "02.ogg", "Track1.MP3"}

\* zip entries, with their directory prefix
ZipPool == {"game/ADISK.DAT", "game/XXXXXG1.ALD", "readme.txt", "bgm/01.ogg", "1.mp3", "02.OGG"}

\* names registered before manifest synthesis
GrPool ==
    {"XXXXXG1.ALD", "XXXXXM1.ALD", "abcDA.ald", "abcRb.Ald", "xySC.ald", "xyWA.ALD",
     "qqZA.ald", "System39.ain", "readme.txt", ".ald", "ga.ald", "a.ald"}

\* track numbers getCDDA is called with
TrackArgs == {1, 2, 3}

\* the bytes of a file of the given container
Content(origin, name) == origin \o ":" \o name

NullAldFiles == [isNull |-> TRUE, list |-> <<>>]

InitLoader ==
    /\ pc = "start"
    /\ i = 1
    /\ error = ""
    /\ gamedata = <<>>
    /\ isSystem3 = FALSE
    /\ modules = <<>>
    /\ aldFiles = NullAldFiles
    /\ hasMidi = FALSE
    /\ registry = <<>>
    /\ reads = <<>>
    /\ gr = <<>>
    /\ tracks = <<>>
    /\ trackURLs = <<>>
    /\ objectURLs = <<>>
    /\ calls = <<>>
    /\ wpc = "idle"
    /\ stdout = <<>>
    /\ msgs = <<>>
    /\ extracted = <<>>

Init ==
    /\ kind \in {"CDImage", "File", "Zip", "SevenZip"}
    /\ disc \in IF kind = "CDImage" THEN DistinctSeqs(DiscPool, MaxFiles) ELSE {<<>>}
    /\ patchFiles \in IF kind = "CDImage" THEN DistinctSeqs(PatchPool, MaxPatches) ELSE {<<>>}
    /\ files \in CASE kind = "CDImage" -> {<<>>}
                   [] kind = "Zip" -> DistinctSeqs(ZipPool, MaxFiles)
                   [] OTHER -> DistinctSeqs(FilePool, MaxFiles)
    /\ InitLoader

----------------------------------------------------------------------------
(* LoaderSource *)

loadSystem3 ==
    /\ modules' = Append(modules, "system3")
    /\ UNCHANGED aldFiles

loadXsystem35 ==
    /\ modules' = Append(modules, "xsystem35")
    /\ aldFiles' = [isNull |-> FALSE, list |-> <<>>]

\* faulty variant: the name is not pushed to aldFiles
addFileNoPush(fname, size, chunks) ==
    /\ registry' = Append(registry, [name |-> fname, size |-> size, chunks |-> chunks])
    /\ UNCHANGED aldFiles

addFile(fname, size, chunks) ==
    /\ registry' = Append(registry, [name |-> fname, size |-> size, chunks |-> chunks])
    /\ aldFiles' = IF aldFiles.isNull THEN aldFiles
                   ELSE [aldFiles EXCEPT !.list = Append(@, fname)]

\* startLoad, after doLoad has returned
CreateGr ==
    /\ pc = "createGr"
    /\ IF aldFiles.isNull
       THEN UNCHANGED <<gr, hasMidi>>
       ELSE LET res == createGr(aldFiles.list, hasMidi)
            IN  /\ gr' = Append(gr, res.lines)
                /\ hasMidi' = res.hasMidi
    /\ pc' = "done"
    /\ UNCHANGED <<kind, files, disc, patchFiles, i, error, gamedata, isSystem3,
                   modules, aldFiles, registry, reads, tracks, trackURLs,
                   objectURLs, calls, wpc, stdout, msgs, extracted>>

----------------------------------------------------------------------------
(* CDImageSource *)

names(listing) == [k \in 1..Len(listing) |-> listing[k].name]

\* isofs.getDirEnt(name, dir): lookup of a lower-case name in a directory listing
getDirEnt(name, listing) ==
    \E k \in 1..Len(listing) : toLowerCase(listing[k]) = name

\* faulty variant: a marker file in the root directory is not looked for
RECURSIVE findGameDirDirsOnly(_, _)
findGameDirDirsOnly(root, k) ==
    IF k > Len(root) THEN [found |-> FALSE, listing |-> <<>>]
    ELSE LET e == root[k]
         IN  IF /\ e.isDirectory
                /\ \/ toLowerCase(e.name) = "gamedata"
                   \/ getDirEnt("adisk.dat", e.children)
             THEN [found |-> TRUE, listing |-> e.children]
             ELSE findGameDirDirsOnly(root, k + 1)

\* findGameDir: the listing of the game directory, found = FALSE for null
RECURSIVE findGameDir(_, _)
findGameDir(root, k) ==
    IF k > Len(root) THEN [found |-> FALSE, listing |-> <<>>]
    ELSE LET e == root[k]
         IN  IF /\ e.isDirectory
                /\ \/ toLowerCase(e.name) = "gamedata"
                   \/ getDirEnt("adisk.dat", e.children)
             THEN [found |-> TRUE, listing |-> e.children]
             ELSE IF toLowerCase(e.name) = "adisk.dat"
             THEN [found |-> TRUE, listing |-> names(root)]
             ELSE findGameDir(root, k + 1)

\* faulty variant: the names are compared as they are
isPatchedCaseSensitive(ename) ==
    \E k \in 1..Len(patchFiles) : patchFiles[k] = ename

\* this.patchFiles.some((f) => f.name.toLowerCase() === e.name.toLowerCase())
isPatched(ename) ==
    \E k \in 1..Len(patchFiles) : toLowerCase(patchFiles[k]) = toLowerCase(ename)

\* the extension filter of the entries loop
isFiltered(ename) ==
    IF isSystem3 THEN ~endsWith(toLowerCase(ename), ".dat")
    ELSE isExcludedXsystem35(ename)

\* where doLoad goes on once the loop over the entries is over
afterEntries == IF Len(patchFiles) = 0 THEN "createGr" ELSE "patches"

\* doLoad up to the throw of NoGamedataError
CDOpen ==
    /\ kind = "CDImage"
    /\ pc = "start"
    /\ LET gd == findGameDir(disc, 1)
       IN  IF gd.found
           THEN /\ gamedata' = gd.listing
                /\ pc' = "select"
                /\ UNCHANGED error
           ELSE /\ pc' = "failed"
                /\ error' = "NoGamedataError: no_gamedata_dir"
                /\ UNCHANGED gamedata
    /\ UNCHANGED <<kind, files, disc, patchFiles, i, isSystem3, modules, aldFiles,
                   hasMidi, registry, reads, gr, tracks, trackURLs, objectURLs,
                   calls, wpc, stdout, msgs, extracted>>

\* the choice between loadSystem3 and loadXsystem35
CDSelect ==
    /\ kind = "CDImage"
    /\ pc = "select"
    /\ isSystem3' = getDirEnt("system3.exe", gamedata)
    /\ IF isSystem3' THEN loadSystem3 ELSE loadXsystem35
    /\ pc' = IF Len(gamedata) = 0 THEN afterEntries ELSE "entries"
    /\ i' = 1
    /\ UNCHANGED <<kind, files, disc, patchFiles, error, gamedata, hasMidi,
                   registry, reads, gr, tracks, trackURLs, objectURLs, calls,
                   wpc, stdout, msgs, extracted>>

\* one iteration of the loop over isofs.readDir(gamedata)
CDEntry ==
    /\ kind = "CDImage"
    /\ pc = "entries"
    /\ LET e == gamedata[i]
       IN  IF isPatched(e) \/ isFiltered(e)
           THEN UNCHANGED <<reads, registry, aldFiles>>
           ELSE /\ reads' = Append(reads, e)
                /\ addFile(e, Len(Content("disc", e)), <<Content("disc", e)>>)
    /\ pc' = IF i = Len(gamedata) THEN afterEntries ELSE "entries"
    /\ i' = IF i = Len(gamedata) THEN 1 ELSE i + 1
    /\ UNCHANGED <<kind, files, disc, patchFiles, error, gamedata, isSystem3,
                   modules, hasMidi, gr, tracks, trackURLs, objectURLs, calls,
                   wpc, stdout, msgs, extracted>>

\* one iteration of the loop over this.patchFiles
CDPatch ==
    /\ kind = "CDImage"
    /\ pc = "patches"
    /\ LET f == patchFiles[i]
       IN  addFile(f, Len(Content("patch", f)), <<Content("patch", f)>>)
    /\ pc' = IF i = Len(patchFiles) THEN "createGr" ELSE "patches"
    /\ i' = i + 1
    /\ UNCHANGED <<kind, files, disc, patchFiles, error, gamedata, isSystem3,
                   modules, hasMidi, reads, gr, tracks, trackURLs, objectURLs,
                   calls, wpc, stdout, msgs, extracted>>

----------------------------------------------------------------------------
(* FileSource *)

hasAdiskDat(fileNames) ==
    \E k \in 1..Len(fileNames) : toLowerCase(fileNames[k]) = "adisk.dat"

\* tracks[n] = f on a sparse array
setAt(array, n, v) == (n :> v) @@ array

\* the choice between loadSystem3 and loadXsystem35
FileSelect ==
    /\ kind = "File"
    /\ pc = "start"
    /\ IF hasAdiskDat(files) THEN loadSystem3 ELSE loadXsystem35
    /\ pc' = IF Len(files) = 0 THEN "createGr" ELSE "files"
    /\ i' = 1
    /\ UNCHANGED <<kind, files, disc, patchFiles, error, gamedata, isSystem3,
                   hasMidi, registry, reads, gr, tracks, trackURLs, objectURLs,
                   calls, wpc, stdout, msgs, extracted>>

\* one iteration of the loop over this.files
FileStep ==
    /\ kind = "File"
    /\ pc = "files"
    /\ LET f == files[i]
           match == audioMatch(toLowerCase(f))
       IN  IF match # ""
           THEN /\ tracks' = setAt(tracks, Number(match), f)
                /\ UNCHANGED <<registry, aldFiles>>
           ELSE /\ addFile(f, Len(Content("file", f)), <<Content("file", f)>>)
                /\ UNCHANGED tracks
    /\ pc' = IF i = Len(files) THEN "createGr" ELSE "files"
    /\ i' = i + 1
    /\ UNCHANGED <<kind, files, disc, patchFiles, error, gamedata, isSystem3,
                   modules, hasMidi, reads, gr, trackURLs, objectURLs, calls,
                   wpc, stdout, msgs, extracted>>

\* faulty variant: the cache is not looked up
getCDDASyncNoMemo(who, track) ==
    /\ kind = who
    /\ pc = "done"
    /\ Len(calls) < MaxCalls
    /\ IF track \notin DOMAIN tracks
       THEN /\ calls' = Append(calls, [track |-> track, state |-> "thrown", value |-> 0])
            /\ UNCHANGED <<trackURLs, objectURLs>>
       ELSE /\ objectURLs' = Append(objectURLs, tracks[track])
            /\ trackURLs' = setAt(trackURLs, track, Len(objectURLs'))
            /\ calls' = Append(calls, [track |-> track, state |-> "returned",
                                       value |-> trackURLs'[track]])
    /\ UNCHANGED <<kind, files, disc, patchFiles, pc, i, error, gamedata, isSystem3,
                   modules, aldFiles, hasMidi, registry, reads, gr, tracks,
                   wpc, stdout, msgs, extracted>>

\* getCDDA of FileSource and of SevenZipSource: no await, so one step
getCDDASync(who, track) ==
    /\ kind = who
    /\ pc = "done"
    /\ Len(calls) < MaxCalls
    /\ IF track \notin DOMAIN trackURLs
       THEN IF track \notin DOMAIN tracks
            THEN /\ calls' = Append(calls, [track |-> track, state |-> "thrown", value |-> 0])
                 /\ UNCHANGED <<trackURLs, objectURLs>>
            ELSE /\ objectURLs' = Append(objectURLs, tracks[track])
                 /\ trackURLs' = setAt(trackURLs, track, Len(objectURLs'))
                 /\ calls' = Append(calls, [track |-> track, state |-> "returned",
                                            value |-> trackURLs'[track]])
       ELSE /\ calls' = Append(calls, [track |-> track, state |-> "returned",
                                       value |-> trackURLs[track]])
            /\ UNCHANGED <<trackURLs, objectURLs>>
    /\ UNCHANGED <<kind, files, disc, patchFiles, pc, i, error, gamedata, isSystem3,
                   modules, aldFiles, hasMidi, registry, reads, gr, tracks,
                   wpc, stdout, msgs, extracted>>

FileGetCDDA(track) == getCDDASync("File", track)

----------------------------------------------------------------------------
(* ZipSource *)

dataFiles == SelectSeq(files, isZipDataFile)

\* the loop over zip.file(/\d+\.(wav|mp3|ogg)$/i)
RECURSIVE zipTracks(_, _, _)
zipTracks(array, entries, k) ==
    IF k > Len(entries) THEN array
    ELSE IF audioMatch(entries[k]) # ""
    THEN zipTracks(setAt(array, Number(audioMatch(entries[k])), entries[k]), entries, k + 1)
    ELSE zipTracks(array, entries, k + 1)

\* faulty variant: the check of dataFiles.length is missing
ZipOpenNoCheck ==
    /\ kind = "Zip"
    /\ pc = "start"
    /\ pc' = "select"
    /\ UNCHANGED <<kind, files, disc, patchFiles, i, error, gamedata, isSystem3,
                   modules, aldFiles, hasMidi, registry, reads, gr, tracks,
                   trackURLs, objectURLs, calls, wpc, stdout, msgs, extracted>>

\* doLoad up to the throw of NoGamedataError
ZipOpen ==
    /\ kind = "Zip"
    /\ pc = "start"
    /\ IF Len(dataFiles) = 0
       THEN /\ pc' = "failed"
            /\ error' = "NoGamedataError: no_ald_in_zip"
       ELSE /\ pc' = "select"
            /\ UNCHANGED error
    /\ UNCHANGED <<kind, files, disc, patchFiles, i, gamedata, isSystem3, modules,
                   aldFiles, hasMidi, registry, reads, gr, tracks, trackURLs,
                   objectURLs, calls, wpc, stdout, msgs, extracted>>

\* the choice between loadSystem3 and loadXsystem35
ZipSelect ==
    /\ kind = "Zip"
    /\ pc = "select"
    /\ IF \E k \in 1..Len(files) : matchesAdiskDat(files[k])
       THEN loadSystem3 ELSE loadXsystem35
    /\ pc' = "files"
    /\ i' = 1
    /\ UNCHANGED <<kind, files, disc, patchFiles, error, gamedata, isSystem3,
                   hasMidi, registry, reads, gr, tracks, trackURLs, objectURLs,
                   calls, wpc, stdout, msgs, extracted>>

\* one iteration of the loop over dataFiles; the last one runs on into the
\* loop that collects the tracks
ZipStep ==
    /\ kind = "Zip"
    /\ pc = "files"
    /\ LET f == dataFiles[i]
       IN  addFile(lastSegment(f), Len(Content("zip", f)), <<Content("zip", f)>>)
    /\ IF i = Len(dataFiles)
       THEN /\ tracks' = zipTracks(tracks, files, 1)
            /\ pc' = "createGr"
       ELSE /\ pc' = "files"
            /\ UNCHANGED tracks
    /\ i' = i + 1
    /\ UNCHANGED <<kind, files, disc, patchFiles, error, gamedata, isSystem3,
                   modules, hasMidi, reads, gr, trackURLs, objectURLs, calls,
                   wpc, stdout, msgs, extracted>>

\* getCDDA up to its await of the blob
ZipGetCDDAStart(track) ==
    /\ kind = "Zip"
    /\ pc = "done"
    /\ Len(calls) < MaxCalls
    /\ calls' = Append(calls,
          IF track \notin DOMAIN trackURLs
          THEN IF track \notin DOMAIN tracks
               THEN [track |-> track, state |-> "thrown", value |-> 0]
               ELSE [track |-> track, state |-> "awaiting", value |-> 0]
          ELSE [track |-> track, state |-> "returned", value |-> trackURLs[track]])
    /\ UNCHANGED <<kind, files, disc, patchFiles, pc, i, error, gamedata, isSystem3,
                   modules, aldFiles, hasMidi, registry, reads, gr, tracks,
                   trackURLs, objectURLs, wpc, stdout, msgs, extracted>>

\* getCDDA from the blob's arrival to its return
ZipGetCDDAResume(c) ==
    /\ kind = "Zip"
    /\ c \in 1..Len(calls)
    /\ calls[c].state = "awaiting"
    /\ LET track == calls[c].track
       IN  /\ objectURLs' = Append(objectURLs, tracks[track])
           /\ trackURLs' = setAt(trackURLs, track, Len(objectURLs'))
           /\ calls' = [calls EXCEPT ![c] = [track |-> track, state |-> "returned",
                                             value |-> trackURLs'[track]]]
    /\ UNCHANGED <<kind, files, disc, patchFiles, pc, i, error, gamedata, isSystem3,
                   modules, aldFiles, hasMidi, registry, reads, gr, tracks,
                   wpc, stdout, msgs, extracted>>

----------------------------------------------------------------------------
(* worker/archiveworker.ts *)

\* a line `7zz l` prints for an archive entry: attributes, then the name
listingLine(name) == "....A " \o name

\* sevenZip.FS.readdir('/out') once the archive is extracted
readdirOut == <<".", "..">> \o files

\* the files the loop over readdir('/out') collects
collectFiles ==
    LET kept == SelectSeq(readdirOut, LAMBDA fname : fname # "." /\ fname # "..")
    IN  [k \in 1..Len(kept) |-> [name |-> kept[k], content |-> Content("7z", kept[k])]]

\* onmessage up to the end of the listing
WorkerList ==
    /\ wpc = "init"
    /\ stdout' = [k \in 1..Len(files) |-> listingLine(files[k])]
    /\ wpc' = "listed"
    /\ UNCHANGED <<kind, files, disc, patchFiles, pc, i, error, gamedata, isSystem3,
                   modules, aldFiles, hasMidi, registry, reads, gr, tracks,
                   trackURLs, objectURLs, calls, msgs, extracted>>

\* faulty variant: the return after the `no game data` message is missing
WorkerPreflightNoReturn ==
    /\ wpc = "listed"
    /\ IF ~\E k \in 1..Len(stdout) : isGameDataLine(stdout[k])
       THEN msgs' = Append(msgs, [error |-> "no game data"])
       ELSE UNCHANGED msgs
    /\ stdout' = <<>>
    /\ wpc' = "extract"
    /\ UNCHANGED <<kind, files, disc, patchFiles, pc, i, error, gamedata, isSystem3,
                   modules, aldFiles, hasMidi, registry, reads, gr, tracks,
                   trackURLs, objectURLs, calls, extracted>>

\* the early failure when the listing names no game file
WorkerPreflight ==
    /\ wpc = "listed"
    /\ IF ~\E k \in 1..Len(stdout) : isGameDataLine(stdout[k])
       THEN /\ msgs' = Append(msgs, [error |-> "no game data"])
            /\ wpc' = "returned"
            /\ UNCHANGED stdout
       ELSE /\ stdout' = <<>>
            /\ wpc' = "extract"
            /\ UNCHANGED msgs
    /\ UNCHANGED <<kind, files, disc, patchFiles, pc, i, error, gamedata, isSystem3,
                   modules, aldFiles, hasMidi, registry, reads, gr, tracks,
                   trackURLs, objectURLs, calls, extracted>>

\* extraction, the response with the files, and close()
WorkerExtract ==
    /\ wpc = "extract"
    /\ msgs' = Append(msgs, [files |-> collectFiles])
    /\ wpc' = "closed"
    /\ UNCHANGED <<kind, files, disc, patchFiles, pc, i, error, gamedata, isSystem3,
                   modules, aldFiles, hasMidi, registry, reads, gr, tracks,
                   trackURLs, objectURLs, calls, stdout, extracted>>

\* an exception anywhere in the try block: the catch clause, then close()
WorkerCatch ==
    /\ wpc \in {"init", "listed", "extract"}
    /\ msgs' = Append(msgs, [error |-> "extraction failed"])
    /\ wpc' = "closed"
    /\ UNCHANGED <<kind, files, disc, patchFiles, pc, i, error, gamedata, isSystem3,
                   modules, aldFiles, hasMidi, registry, reads, gr, tracks,
                   trackURLs, objectURLs, calls, stdout, extracted>>

----------------------------------------------------------------------------
(* SevenZipSource *)

\* new Worker, postMessage, and the await of the response
SevenZipPost ==
    /\ kind = "SevenZip"
    /\ pc = "start"
    /\ wpc' = "init"
    /\ pc' = "await"
    /\ UNCHANGED <<kind, files, disc, patchFiles, i, error, gamedata, isSystem3,
                   modules, aldFiles, hasMidi, registry, reads, gr, tracks,
                   trackURLs, objectURLs, calls, stdout, msgs, extracted>>

\* the first message resolves the promise
SevenZipReceive ==
    /\ kind = "SevenZip"
    /\ pc = "await"
    /\ Len(msgs) >= 1
    /\ LET data == msgs[1]
       IN  IF "error" \in DOMAIN data
           THEN /\ pc' = "failed"
                /\ error' = data.error
                /\ UNCHANGED extracted
           ELSE /\ extracted' = data.files
                /\ pc' = "select"
                /\ UNCHANGED error
    /\ UNCHANGED <<kind, files, disc, patchFiles, i, gamedata, isSystem3, modules,
                   aldFiles, hasMidi, registry, reads, gr, tracks, trackURLs,
                   objectURLs, calls, wpc, stdout, msgs>>

\* the choice between loadSystem3 and loadXsystem35
SevenZipSelect ==
    /\ kind = "SevenZip"
    /\ pc = "select"
    /\ IF hasAdiskDat(names(extracted)) THEN loadSystem3 ELSE loadXsystem35
    /\ pc' = IF Len(extracted) = 0 THEN "createGr" ELSE "files"
    /\ i' = 1
    /\ UNCHANGED <<kind, files, disc, patchFiles, error, gamedata, isSystem3,
                   hasMidi, registry, reads, gr, tracks, trackURLs, objectURLs,
                   calls, wpc, stdout, msgs, extracted>>

\* one iteration of the loop over the extracted files
SevenZipStep ==
    /\ kind = "SevenZip"
    /\ pc = "files"
    /\ LET f == extracted[i]
           match == audioMatch(f.name)
       IN  IF match # ""
           THEN /\ tracks' = setAt(tracks, Number(match), f.content)
                /\ UNCHANGED <<registry, aldFiles>>
           ELSE /\ addFile(f.name, Len(f.content), <<f.content>>)
                /\ UNCHANGED tracks
    /\ pc' = IF i = Len(extracted) THEN "createGr" ELSE "files"
    /\ i' = i + 1
    /\ UNCHANGED <<kind, files, disc, patchFiles, error, gamedata, isSystem3,
                   modules, hasMidi, reads, gr, trackURLs, objectURLs, calls,
                   wpc, stdout, msgs, extracted>>

SevenZipGetCDDA(track) == getCDDASync("SevenZip", track)

----------------------------------------------------------------------------
(* Specifications *)

\* startLoad of the four sources, with the worker
NextLoad ==
    \/ CDOpen
    \/ CDSelect
    \/ CDEntry
    \/ CDPatch
    \/ FileSelect
    \/ FileStep
    \/ ZipOpen
    \/ ZipSelect
    \/ ZipStep
    \/ SevenZipPost
    \/ WorkerList
    \/ WorkerPreflight
    \/ WorkerExtract
    \/ WorkerCatch
    \/ SevenZipReceive
    \/ SevenZipSelect
    \/ SevenZipStep
    \/ CreateGr

\* discovery alone: one startLoad on each source
SpecLoad == Init /\ [][NextLoad]_vars

Next ==
    \/ NextLoad
    \/ \E track \in TrackArgs : FileGetCDDA(track)
    \/ \E track \in TrackArgs : SevenZipGetCDDA(track)
    \/ \E track \in TrackArgs : ZipGetCDDAStart(track)
    \/ \E c \in 1..MaxCalls : ZipGetCDDAResume(c)

\* every source, getCDDA calls free to overlap
Spec == Init /\ [][Next]_vars

\* no getCDDA call is awaiting its blob
noCallInFlight == \A c \in 1..Len(calls) : calls[c].state # "awaiting"

NextSeq ==
    \/ FileSelect
    \/ FileStep
    \/ ZipOpen
    \/ ZipSelect
    \/ ZipStep
    \/ SevenZipPost
    \/ WorkerList
    \/ WorkerPreflight
    \/ WorkerExtract
    \/ WorkerCatch
    \/ SevenZipReceive
    \/ SevenZipSelect
    \/ SevenZipStep
    \/ CreateGr
    \/ \E track \in TrackArgs : FileGetCDDA(track)
    \/ \E track \in TrackArgs : SevenZipGetCDDA(track)
    \/ \E track \in TrackArgs : noCallInFlight /\ ZipGetCDDAStart(track)
    \/ \E c \in 1..MaxCalls : ZipGetCDDAResume(c)

InitSeq == Init /\ kind # "CDImage"

\* the sources with a track table of their own, every getCDDA call started
\* after the one before it has returned or thrown
SpecSeq == InitSeq /\ [][NextSeq]_vars

\* a FileSource whose doLoad has registered the files of a name list
InitGr ==
    /\ kind = "File"
    /\ files \in DistinctSeqs(GrPool, MaxGrFiles)
    /\ disc = <<>>
    /\ patchFiles = <<>>
    /\ pc = "createGr"
    /\ i = Len(files) + 1
    /\ error = ""
    /\ gamedata = <<>>
    /\ isSystem3 = FALSE
    /\ modules = <<"xsystem35">>
    /\ aldFiles = [isNull |-> FALSE, list |-> files]
    /\ hasMidi = FALSE
    /\ registry = [k \in 1..Len(files) |->
                     [name |-> files[k], size |-> Len(Content("file", files[k])),
                      chunks |-> <<Content("file", files[k])>>]]
    /\ reads = <<>>
    /\ gr = <<>>
    /\ tracks = <<>>
    /\ trackURLs = <<>>
    /\ objectURLs = <<>>
    /\ calls = <<>>
    /\ wpc = "idle"
    /\ stdout = <<>>
    /\ msgs = <<>>
    /\ extracted = <<>>

NextGr == CreateGr

\* manifest synthesis alone, over the lists of registered names
SpecGr == InitGr /\ [][NextGr]_vars

----------------------------------------------------------------------------
(* The manifest, read back line by line *)

\* the manifest written, once createGr has written it
manifest == gr[1]

isSaveLine(line) == startsWith(line, "Save")

isMsgSkipLine(line) == startsWith(line, "MsgSkip ")

isAinLine(line) == startsWith(line, "Ain ")

\* the lines before the 26 SaveLines and the MsgSkipLine
manifestHead == SubSeq(manifest, 1, Len(manifest) - 27)

\* the ResourceLines of the manifest, in order
manifestResourceLines == SelectSeq(manifestHead, LAMBDA line : ~isAinLine(line))

\* the k-th of the 26 lines before the last
manifestSaveLine(k) == manifest[Len(manifest) - 27 + k]

manifestLastLine == manifest[Len(manifest)]

\* what stands between `MsgSkip save/` and `.msgskip` in the last line
manifestBase == SubSeq(manifestLastLine, 14, Len(manifestLastLine) - 8)

letter(k) == SubSeq(UpperLetters, k, k)

roleTable ==
    [d |-> "Data", g |-> "Graphics", m |-> "Midi", r |-> "Resource", s |-> "Scenario", w |-> "Wave"]

\* the filename ends in .ald and its 6th-from-last character is a known type
qualifies(name) ==
    /\ endsWith(toLowerCase(name), ".ald")
    /\ toLowerCase(charAt(name, Len(name) - 6)) \in DOMAIN roleTable

expectedResourceLine(name) ==
    roleTable[toLowerCase(charAt(name, Len(name) - 6))]
        \o toUpperCase(charAt(name, Len(name) - 5)) \o " " \o name

\* the base of the last name, in order, that ends in .ald; '' when there is none
expectedBase(nameList) ==
    LET alds == SelectSeq(nameList, LAMBDA name : endsWith(toLowerCase(name), ".ald"))
    IN  IF Len(alds) = 0 THEN "" ELSE sliceOff(alds[Len(alds)], 6)

countLines(lines, Test(_)) == Cardinality({k \in 1..Len(lines) : Test(lines[k])})

----------------------------------------------------------------------------
(* C5 *)

\* C5: for Xsystem35 and any list of registered filenames, the manifest's
\* ResourceLines are exactly, in discovery order, one line `<Role><ID> <name>`
\* for each filename that ends in .ald (any case) and whose 6th-from-last
\* character, case-folded, is one of d,g,m,r,s,w; no other filename yields a
\* ResourceLine; hasMidi is true iff one of those filenames has type m.
C5_ResourceLines ==
    pc = "done" /\ Len(gr) = 1 =>
        LET qualifying == SelectSeq(aldFiles.list, qualifies)
        IN  /\ manifestResourceLines =
                  [k \in 1..Len(qualifying) |-> expectedResourceLine(qualifying[k])]
            /\ hasMidi <=> \E k \in 1..Len(qualifying) :
                               toLowerCase(charAt(qualifying[k], Len(qualifying[k]) - 6)) = "m"

\* a manifest with a Midi line, a line whose slot was upper-cased, and a
\* skipped file of unknown type
C5_Witness ==
    /\ pc = "done"
    /\ Len(gr) = 1
    /\ \E a, b, c \in 1..Len(aldFiles.list) :
          /\ aldFiles.list[a] = "XXXXXM1.ALD"
          /\ aldFiles.list[b] = "abcRb.Ald"
          /\ aldFiles.list[c] = "qqZA.ald"
    /\ manifestResourceLines = <<"Midi1 XXXXXM1.ALD", "ResourceB abcRb.Ald">>
    /\ hasMidi

----------------------------------------------------------------------------
(* C6 *)

\* the last line is `MsgSkip save/<base>.msgskip` for the base read from it
msgSkipLineWellFormed ==
    /\ Len(manifestLastLine) >= 21
    /\ manifestLastLine = "MsgSkip save/" \o manifestBase \o ".msgskip"

----------------------------------------------------------------------------
(* C7 *)

\* C7: the manifest holds exactly 26 SaveLines, one per letter in A..Z order,
\* followed by exactly one MsgSkipLine as its last line; all 27 use the base
\* of the last filename, in discovery order, that ends in .ald, whether or
\* not its type character is known; with no such filename the base is empty
\* and there is no ResourceLine.
C7_SaveLinesAndBase ==
    pc = "done" /\ Len(gr) = 1 =>
        LET base == expectedBase(aldFiles.list)
        IN  /\ Len(manifest) >= 27
            /\ countLines(manifest, isSaveLine) = 26
            /\ countLines(manifest, isMsgSkipLine) = 1
            /\ manifestLastLine = "MsgSkip save/" \o base \o ".msgskip"
            /\ \A k \in 1..26 :
                  /\ startsWith(manifestSaveLine(k), "Save" \o letter(k) \o " save/" \o base)
                  /\ endsWith(manifestSaveLine(k), toLowerCase(letter(k)) \o ".asd")
            /\ manifestBase = base
            /\ (\A k \in 1..Len(aldFiles.list) :
                    ~endsWith(toLowerCase(aldFiles.list[k]), ".ald"))
                 => base = "" /\ Len(manifestResourceLines) = 0

\* the last .ald file has an unknown type character and still gives the base,
\* after a file of another base gave a ResourceLine
C7_Witness ==
    /\ pc = "done"
    /\ Len(gr) = 1
    /\ Len(aldFiles.list) >= 2
    /\ aldFiles.list[1] = "XXXXXG1.ALD"
    /\ aldFiles.list[Len(aldFiles.list)] = "qqZA.ald"
    /\ manifestLastLine = "MsgSkip save/qq.msgskip"
    /\ Len(manifestResourceLines) = 1

----------------------------------------------------------------------------
(* getCDDA, seen from its callers *)

\* the track numbers the input records: a name <digits>.<wav|mp3|ogg>
recordedTracks ==
    {Number(audioMatch(files[k])) : k \in {n \in 1..Len(files) : audioMatch(files[n]) # ""}}

\* the URLs createObjectURL made for the file or blob of a track
handlesOf(track) ==
    IF track \in DOMAIN tracks
    THEN {n \in 1..Len(objectURLs) : objectURLs[n] = tracks[track]}
    ELSE {}

returnedCalls(track) ==
    {c \in 1..Len(calls) : calls[c].track = track /\ calls[c].state = "returned"}

----------------------------------------------------------------------------
(* C1 *)

\* C1 as stated: for every source and registered track t, however the steps
\* of the getCDDA(t) calls interleave, at most one handle is ever created
\* for t and every call that returns, returns that handle.
C1_OneHandlePerTrack ==
    \A track \in TrackArgs :
        /\ Cardinality(handlesOf(track)) <= 1
        /\ \A c1, c2 \in returnedCalls(track) : calls[c1].value = calls[c2].value

----------------------------------------------------------------------------
(* C2 *)

\* the last file, in input order, recorded under a track number
trackFile(track) ==
    LET at == {k \in 1..Len(files) :
                  audioMatch(files[k]) # "" /\ Number(audioMatch(files[k])) = track}
    IN  files[CHOOSE k \in at : \A n \in at : n <= k]

\* the track table is the one discovery built, the cache holds the tracks
\* whose calls returned and nothing else, and one URL was made per cached track
tablesIntact ==
    /\ DOMAIN tracks = recordedTracks
    /\ \A track \in recordedTracks :
          tracks[track] = IF kind = "SevenZip" THEN Content("7z", trackFile(track))
                          ELSE trackFile(track)
    /\ DOMAIN trackURLs = {calls[c].track : c \in {n \in 1..Len(calls) : calls[n].state = "returned"}}
    /\ Len(objectURLs) = Cardinality(DOMAIN trackURLs)

\* every call made so far got the answer its track calls for
callsAnswered ==
    \A c \in 1..Len(calls) :
        LET track == calls[c].track
        IN  IF track \in recordedTracks
            THEN /\ calls[c].state # "thrown"
                 /\ calls[c].state = "returned" =>
                       /\ handlesOf(track) = {calls[c].value}
                       /\ \A c2 \in returnedCalls(track) : calls[c2].value = calls[c].value
            ELSE calls[c].state = "thrown"

\* C2: after a successful startLoad on a Loose-File, Zip or Archive-Worker
\* source, with getCDDA calls made one after the other: a call for a track
\* recorded during discovery returns, every such call returns the same
\* handle, one handle is created for the track (by the first call), and it
\* refers to the track's file; a call for a track never recorded throws and
\* leaves no trace in the track table, the handle cache or the created URLs,
\* and calls on recorded tracks after it still return.
C2_SequentialGetCDDA ==
    pc = "done" => tablesIntact /\ callsAnswered

\* a zip source: getCDDA(1) returned a handle, getCDDA(3) threw, and
\* getCDDA(1) returned the same handle again
C2_Witness ==
    /\ kind = "Zip"
    /\ Len(calls) = 3
    /\ calls[1] = [track |-> 1, state |-> "returned", value |-> 1]
    /\ calls[2] = [track |-> 3, state |-> "thrown", value |-> 0]
    /\ calls[3] = [track |-> 1, state |-> "returned", value |-> 1]
    /\ objectURLs = <<"bgm/01.ogg">>

----------------------------------------------------------------------------
(* C3 *)

sameName(a, b) == toLowerCase(a) = toLowerCase(b)

\* the registration made for patch file f
patchRecord(f) ==
    [name |-> f, size |-> Len(Content("patch", f)), chunks |-> <<Content("patch", f)>>]

isPatchRecord(rec) ==
    \E k \in 1..Len(patchFiles) : rec = patchRecord(patchFiles[k])

discoveryOver == pc \in {"createGr", "done"}

----------------------------------------------------------------------------
(* C4 *)

\* no root entry is a directory named gamedata, a directory holding
\* adisk.dat, or a file named adisk.dat
noGameDirectory ==
    \A k \in 1..Len(disc) :
        /\ toLowerCase(disc[k].name) # "adisk.dat"
        /\ disc[k].isDirectory =>
              /\ toLowerCase(disc[k].name) # "gamedata"
              /\ \A n \in 1..Len(disc[k].children) :
                    toLowerCase(disc[k].children[n]) # "adisk.dat"

\* no zip entry ends in one of the data extensions
noZipData == \A k \in 1..Len(files) : ~isZipDataFile(files[k])

\* the worker's reply is an error
workerReportedError == Len(msgs) >= 1 /\ "error" \in DOMAIN msgs[1]

nothingLoaded ==
    /\ registry = <<>>
    /\ modules = <<>>
    /\ aldFiles = NullAldFiles
    /\ gr = <<>>

\* C4: when discovery meets a hard error (zip without an entry of a data
\* extension, disc without a game directory, worker replying with an error)
\* startLoad fails, and at that point no file has been registered, no
\* engine variant selected and no manifest written.
C4_HardErrorLoadsNothing ==
    /\ kind = "Zip" /\ noZipData /\ pc # "start" => pc = "failed"
    /\ kind = "CDImage" /\ noGameDirectory /\ pc # "start" => pc = "failed"
    /\ kind = "SevenZip" /\ workerReportedError /\ pc # "await" => pc = "failed"
    /\ pc = "failed" =>
          /\ nothingLoaded
          /\ \/ kind = "Zip" /\ noZipData
             \/ kind = "CDImage" /\ noGameDirectory
             \/ kind = "SevenZip" /\ workerReportedError

\* a zip of two entries, none of them game data, whose load has failed
C4_Witness ==
    /\ kind = "Zip"
    /\ Len(files) = 2
    /\ pc = "failed"
    /\ error = "NoGamedataError: no_ald_in_zip"

----------------------------------------------------------------------------
(* C8 *)

\* the disc of the scenario: ADISK.DAT, XXXXXG1.ALD and XXXXXM1.ALD in the
\* root directory, in any order, and no patch file
scenarioDisc ==
    /\ kind = "CDImage"
    /\ Len(disc) = 3
    /\ {disc[k] : k \in 1..3} = {File("ADISK.DAT"), File("XXXXXG1.ALD"), File("XXXXXM1.ALD")}
    /\ patchFiles = <<>>

hasLine(line) == \E k \in 1..Len(manifest) : manifest[k] = line

\* Xsystem35 was selected, the Midi flag is set, and the manifest has 26
\* SaveLines and a MsgSkipLine for the base XXXXX
scenarioManifest ==
    /\ modules = <<"xsystem35">>
    /\ Len(gr) = 1
    /\ hasMidi
    /\ countLines(manifest, isSaveLine) = 26
    /\ countLines(manifest, isMsgSkipLine) = 1
    /\ manifestLastLine = "MsgSkip save/XXXXX.msgskip"
    /\ \A k \in 1..26 : startsWith(manifestSaveLine(k), "Save" \o letter(k) \o " save/XXXXX")

\* C8 as stated: startLoad on the scenario's disc selects Xsystem35 and
\* writes a manifest with the lines `GraphicsA1 XXXXXG1.ALD` and
\* `MidiA1 XXXXXM1.ALD`, the Midi flag set, 26 SaveLines and one MsgSkipLine
\* with base XXXXX.
C8_ScenarioAsStated ==
    scenarioDisc /\ pc = "done" =>
        /\ scenarioManifest
        /\ hasLine("GraphicsA1 XXXXXG1.ALD")
        /\ hasLine("MidiA1 XXXXXM1.ALD")

\* C8, amended: startLoad on the scenario's disc selects Xsystem35 and
\* writes a manifest with the lines `Graphics1 XXXXXG1.ALD` and
\* `Midi1 XXXXXM1.ALD` (the role followed by the file's one slot character),
\* the Midi flag set, 26 SaveLines and one MsgSkipLine with base XXXXX.
C8_Scenario ==
    /\ scenarioDisc /\ pc # "start" => pc # "failed"
    /\ scenarioDisc /\ pc = "done" =>
          /\ scenarioManifest
          /\ hasLine("Graphics1 XXXXXG1.ALD")
          /\ hasLine("Midi1 XXXXXM1.ALD")
          /\ manifestResourceLines \in {<<"Graphics1 XXXXXG1.ALD", "Midi1 XXXXXM1.ALD">>,
                                        <<"Midi1 XXXXXM1.ALD", "Graphics1 XXXXXG1.ALD">>}

\* the scenario's disc, loaded
C8_Witness ==
    /\ scenarioDisc
    /\ pc = "done"
    /\ names(registry) = <<"ADISK.DAT", "XXXXXG1.ALD", "XXXXXM1.ALD">>

----------------------------------------------------------------------------
(* C9 *)

\* the names discovery is to register, in order, for the source's input
expectedNames ==
    CASE kind = "CDImage" ->
             SelectSeq(gamedata, LAMBDA e :
                 /\ \A k \in 1..Len(patchFiles) : ~sameName(patchFiles[k], e)
                 /\ IF \E k \in 1..Len(gamedata) : toLowerCase(gamedata[k]) = "system3.exe"
                    THEN endsWith(toLowerCase(e), ".dat")
                    ELSE ~isExcludedXsystem35(e)) \o patchFiles
      [] kind = "Zip" ->
             LET data == SelectSeq(files, isZipDataFile)
             IN  [k \in 1..Len(data) |-> lastSegment(data[k])]
      [] OTHER -> SelectSeq(files, LAMBDA f : audioMatch(f) = "")

----------------------------------------------------------------------------
(* C10 *)

\* the archive listing names a game file
listingHasGameData ==
    \E k \in 1..Len(files) : isGameDataLine(listingLine(files[k]))

\* the handler has run to its end
workerEnded == wpc \in {"returned", "closed"}

\* C10: in the Archive-Worker Source the worker posts exactly one message
\* per request on every path (`no game data` from the pre-flight listing,
\* `extraction failed` from an exception, or the file list), never two and,
\* once the handler has ended, never none; the caller stays suspended until
\* the message arrives, registers no file and selects no variant before it,
\* and on an error reply fails without registering anything.
C10_OneResponse ==
    kind = "SevenZip" =>
        /\ Len(msgs) <= 1
        /\ workerEnded => Len(msgs) = 1
        /\ wpc = "returned" => msgs = <<[error |-> "no game data"]>> /\ ~listingHasGameData
        /\ Len(msgs) = 1 =>
              \/ msgs[1] = [error |-> "no game data"] /\ ~listingHasGameData
              \/ msgs[1] = [error |-> "extraction failed"]
              \/ msgs[1] = [files |-> [k \in 1..Len(files) |->
                                [name |-> files[k], content |-> Content("7z", files[k])]]]
                 /\ listingHasGameData
        /\ Len(msgs) = 0 => pc \in {"start", "await"} /\ nothingLoaded
        /\ workerReportedError =>
              /\ pc \in {"await", "failed"}
              /\ nothingLoaded
        /\ pc = "failed" => workerReportedError /\ error = msgs[1].error
        /\ Len(msgs) = 1 /\ ~workerReportedError /\ pc # "await" => pc # "failed"

\* the pre-flight listing found no game file and the load failed with the
\* worker's one message
C10_Witness ==
    /\ kind = "SevenZip"
    /\ files = <<"01.ogg", "02.ogg">>
    /\ wpc = "returned"
    /\ msgs = <<[error |-> "no game data"]>>
    /\ pc = "failed"
    /\ error = "no game data"

====
